---- MODULE Spec2Model ----
(***************************************************************************)
(* Model of src/client/mod.rs: InfluxDbClient (new, database_name,         *)
(* database_url, auth, ping, query).                                       *)
(*                                                                         *)
(* Strings are modelled as Rust stores them: sequences of bytes (UTF-8).   *)
(* A future returned by ping/query is a slot of Futures; it is lazy, so    *)
(* the HTTP request is dispatched by a separate step (Send) after the      *)
(* synchronous part of the call has built the request.                     *)
(***************************************************************************)
EXTENDS Integers, Sequences, FiniteSets, TLC

VARIABLES args, client, pc, op, arg, request, sent, response, outcome

vars == <<args, client, pc, op, arg, request, sent, response, outcome>>

(***************************************************************************)
(* Bytes and string literals                                               *)
(***************************************************************************)

\* ASCII codes of the characters used in string literals.
Upper ==
  <<"A", "B", "C", "D", "E", "F", "G", "H", "I", "J", "K", "L", "M",
    "N", "O", "P", "Q", "R", "S", "T", "U", "V", "W", "X", "Y", "Z">>

Lower ==
  <<"a", "b", "c", "d", "e", "f", "g", "h", "i", "j", "k", "l", "m",
    "n", "o", "p", "q", "r", "s", "t", "u", "v", "w", "x", "y", "z">>

Digit == <<"0", "1", "2", "3", "4", "5", "6", "7", "8", "9">>

Punct ==
  [c \in {" ", "\"", "-", ".", "/", ":", ";", "=", "{", "}"} |->
     CASE c = " " -> 32 [] c = "\"" -> 34 [] c = "-" -> 45 [] c = "." -> 46
       [] c = "/" -> 47
       [] c = ":" -> 58 [] c = ";" -> 59 [] c = "=" -> 61
       [] c = "{" -> 123 [] c = "}" -> 125]

Index(t, c) == CHOOSE i \in 1..Len(t) : t[i] = c

Code(c) ==
  IF \E i \in 1..Len(Upper) : Upper[i] = c THEN 64 + Index(Upper, c)
  ELSE IF \E i \in 1..Len(Lower) : Lower[i] = c THEN 96 + Index(Lower, c)
  ELSE IF \E i \in 1..Len(Digit) : Digit[i] = c THEN 47 + Index(Digit, c)
  ELSE Punct[c]

\* The bytes of a string literal given as a tuple of its characters.
U(cs) == [i \in 1..Len(cs) |-> Code(cs[i])]

\* str::contains: some window of hay equals needle (the scan of the
\* standard library, left to right).
RECURSIVE ContainsFrom(_, _, _)
ContainsFrom(hay, needle, i) ==
  IF i + Len(needle) - 1 > Len(hay) THEN FALSE
  ELSE IF SubSeq(hay, i, i + Len(needle) - 1) = needle THEN TRUE
  ELSE ContainsFrom(hay, needle, i + 1)

Contains(hay, needle) == ContainsFrom(hay, needle, 1)

IsCont(b) == b >= 128 /\ b <= 191

\* std::str::from_utf8 validity (RFC 3629 well-formed byte sequences).
RECURSIVE Utf8From(_, _)
Utf8From(b, i) ==
  IF i > Len(b) THEN TRUE
  ELSE LET x == b[i]
           n == Len(b)
           c1 == i + 1 <= n /\ IsCont(b[i + 1])
           c2 == i + 2 <= n /\ IsCont(b[i + 2])
           c3 == i + 3 <= n /\ IsCont(b[i + 3])
       IN  IF x <= 127 THEN Utf8From(b, i + 1)
           ELSE IF x >= 194 /\ x <= 223 THEN c1 /\ Utf8From(b, i + 2)
           ELSE IF x = 224 THEN c1 /\ b[i + 1] >= 160 /\ c2 /\ Utf8From(b, i + 3)
           ELSE IF x = 237 THEN c1 /\ b[i + 1] <= 159 /\ c2 /\ Utf8From(b, i + 3)
           ELSE IF x >= 225 /\ x <= 239 THEN c1 /\ c2 /\ Utf8From(b, i + 3)
           ELSE IF x = 240 THEN c1 /\ b[i + 1] >= 144 /\ c2 /\ c3 /\ Utf8From(b, i + 4)
           ELSE IF x >= 241 /\ x <= 243 THEN c1 /\ c2 /\ c3 /\ Utf8From(b, i + 4)
           ELSE IF x = 244 THEN c1 /\ b[i + 1] <= 143 /\ c2 /\ c3 /\ Utf8From(b, i + 4)
           ELSE FALSE

\* std::str::from_utf8(&body): Option of the string (0 or 1 element).
from_utf8(body) == IF Utf8From(body, 1) THEN <<body>> ELSE <<>>

\* HeaderValue::to_str: Option of the string; fails on a byte that is not
\* visible ASCII (32..126) or tab.
to_str(v) ==
  IF \A i \in 1..Len(v) : (v[i] >= 32 /\ v[i] < 127) \/ v[i] = 9 THEN <<v>> ELSE <<>>

\* Url::parse: an absolute URL starts with a scheme, ALPHA *(ALPHA / DIGIT /
\* "+" / "-" / ".") ":"; anything else is a relative URL without a base,
\* which is an error.
IsAlpha(b) == (b >= 65 /\ b <= 90) \/ (b >= 97 /\ b <= 122)

IsSchemeChar(b) == IsAlpha(b) \/ (b >= 48 /\ b <= 57) \/ b \in {43, 45, 46}

UrlParses(s) ==
  /\ Len(s) >= 2
  /\ IsAlpha(s[1])
  /\ \E k \in 2..Len(s) :
       /\ s[k] = 58
       /\ \A j \in 2..(k - 1) : IsSchemeChar(s[j])

(***************************************************************************)
(* Inputs                                                                  *)
(***************************************************************************)

\* Largest number of padding bytes put in front of a query string or a body.
MaxPad == 1

RECURSIVE Rep(_, _)
Rep(b, n) == IF n = 0 THEN <<>> ELSE <<b>> \o Rep(b, n - 1)

Pads == {Rep(32, n) : n \in 0..MaxPad}

\* The futures (calls) that may be alive at the same time.
Futures == {"f1", "f2"}

\* "127.0.0.1:8086" is what a user who leaves out the scheme passes; it is
\* kept short here as "1:8".
Urls == {U(<<"h", "t", "t", "p", ":", "/", "/", "h">>), U(<<"1", ":", "8">>)}

Databases == {U(<<"t", "e", "s", "t">>), U(<<"d", "b", "2">>)}

Auths ==
  {<<>>, <<[username |-> U(<<"a", "d", "m", "i", "n">>), password |-> U(<<"p", "w">>)]>>}

ReadTypeId == "InfluxDbReadQuery"

WriteTypeId == "InfluxDbWriteQuery"

OtherTypeId == "Other"

ReadKeywords ==
  { U(<<"S", "E", "L", "E", "C", "T", " ", "1">>),
    U(<<"S", "H", "O", "W", " ", "D", "A", "T", "A", "B", "A", "S", "E", "S">>),
    U(<<"s", "e", "l", "e", "c", "t", " ", "1">>),
    U(<<"S", "E", "L", "E", "C", " ", "T">>),
    U(<<"D", "R", "O", "P", " ", "S", "H", "O">>) }

WriteLines ==
  { U(<<"w", " ", "f", "=", "1">>), U(<<"S", "H", "O", "W", " ", "f", "=", "1">>) }

Precisions == {U(<<"n", "s">>), U(<<"s">>)}

BuildErrors == {U(<<"f", "i", "e", "l", "d", "s", " ", "e", "m", "p", "t", "y">>)}

\* What query() sees of its argument: the runtime type, the result of
\* q.build() and, for a write query, get_precision_modifier().
Queries ==
  {[type |-> ReadTypeId, ok |-> TRUE, text |-> p \o k, precision |-> <<>>] :
      p \in Pads, k \in ReadKeywords}
  \cup {[type |-> WriteTypeId, ok |-> TRUE, text |-> l, precision |-> m] :
      l \in WriteLines, m \in Precisions}
  \cup {[type |-> t, ok |-> FALSE, text |-> e, precision |-> <<>>] :
      t \in {ReadTypeId, WriteTypeId}, e \in BuildErrors}
  \cup {[type |-> OtherTypeId, ok |-> TRUE, text |-> <<>>, precision |-> <<>>]}

BodyCores ==
  { U(<<"{", "\"", "e", "r", "r", "o", "r", "\"", ":", "1", "}">>),
    U(<<"e", "r", "r", "o", "r">>),
    U(<<"\"", "e", "r", "r", "o", "r">>),
    U(<<"\"", "E", "r", "r", "o", "r", "\"">>),
    U(<<"{", "\"", "r", "e", "s", "u", "l", "t", "s", "\"", "}">>) }

\* Nothing; U+00E9 encoded; a lead byte without its continuation; a byte
\* that occurs in no UTF-8 text.
BodyTails == {<<>>, <<195, 169>>, <<195>>, <<255>>}

Bodies == {p \o c \o t : p \in Pads, c \in BodyCores, t \in BodyTails}

Statuses == {200, 500}

\* A header of the response: absent, or present with a value.
BuildHeaders == {<<>>, <<U(<<"O", "S", "S">>)>>, << <<233>> >>}

VersionHeaders == {<<>>, <<U(<<"1", ".", "7">>)>>}

Errs == {U(<<"t", "i", "m", "e", "d", " ", "o", "u", "t">>)}

(***************************************************************************)
(* The client                                                              *)
(***************************************************************************)

\* InfluxDbClient::new
New(url, database, auth) == [url |-> url, database |-> database, auth |-> auth]

database_name(self) == self.database

database_url(self) == self.url

auth(self) == self.auth

NoRequest == [method |-> "NONE", url |-> <<>>, params |-> <<>>, body |-> <<>>]

NoResponse == [status |-> 0, build |-> <<>>, version |-> <<>>, body |-> <<>>]

Pending == [kind |-> "Pending", value |-> <<>>]

Param(k, v) == [k |-> k, v |-> v]

AuthParameters_OnlyUser(self) ==
  IF auth(self) # <<>> THEN <<Param("u", auth(self)[1].username)>> ELSE <<>>

\* The u and p parameters pushed when the client has an authentication.
AuthParameters(self) ==
  IF auth(self) # <<>>
  THEN <<Param("u", auth(self)[1].username), Param("p", auth(self)[1].password)>>
  ELSE <<>>

\* String literals of the client.
WritePath == U(<<"/", "w", "r", "i", "t", "e">>)

PingPath == U(<<"/", "p", "i", "n", "g">>)

SELECT == U(<<"S", "E", "L", "E", "C", "T">>)

SHOW == U(<<"S", "H", "O", "W">>)

ErrorNeedle == U(<<"\"", "e", "r", "r", "o", "r", "\"">>)

DatabaseErrorPrefix ==
  U(<<"i", "n", "f", "l", "u", "x", "d", "b", " ", "e", "r", "r", "o", "r", ":", " ", "\"">>)

DatabaseErrorSuffix == U(<<"\"">>)

Utf8ErrorText ==
  U(<<"r", "e", "s", "p", "o", "n", "s", "e", " ", "c", "o", "u", "l", "d", " ",
      "n", "o", "t", " ", "b", "e", " ", "c", "o", "n", "v", "e", "r", "t", "e", "d", " ",
      "t", "o", " ", "U", "T", "F", "-", "8">>)

\* The endpoint the read branch formats.
ReadEndpoint(self) == database_url(self) \o WritePath

\* The endpoint the write branch formats.
WriteEndpoint(self) == database_url(self) \o WritePath

ReadMethod_StartsWith(read_query) ==
  IF SubSeq(read_query, 1, Len(SELECT)) = SELECT \/ SubSeq(read_query, 1, Len(SHOW)) = SHOW
  THEN "GET" ELSE "POST"

\* The method of a read request.
ReadMethod(read_query) ==
  IF Contains(read_query, SELECT) \/ Contains(read_query, SHOW)
  THEN "GET" ELSE "POST"

\* The request of the read branch (before Url::parse_with_params).
ReadRequest(self, query) ==
  [method |-> ReadMethod(query),
   url    |-> ReadEndpoint(self),
   params |-> <<Param("db", database_name(self)), Param("q", query)>>
                \o AuthParameters(self),
   body   |-> <<>>]

WriteRequest_QueryAsParameter(self, query, precision_modfier) ==
  [method |-> "POST",
   url    |-> WriteEndpoint(self),
   params |-> <<Param("db", database_name(self)), Param("q", query)>>
                \o AuthParameters(self),
   body   |-> <<>>]

\* The request of the write branch (before Url::parse_with_params).
WriteRequest(self, query, precision_modfier) ==
  [method |-> "POST",
   url    |-> WriteEndpoint(self),
   params |-> <<Param("db", database_name(self)), Param("precision", precision_modfier)>>
                \o AuthParameters(self),
   body   |-> <<query>>]

\* The request of ping.
PingRequest(self) ==
  [method |-> "GET",
   url    |-> database_url(self) \o PingPath,
   params |-> <<>>,
   body   |-> <<>>]

QueryResult_BareWord(body) ==
  LET utf8 == from_utf8(body) IN
  IF utf8 # <<>>
  THEN IF Contains(utf8[1], U(<<"e", "r", "r", "o", "r">>))
       THEN [kind |-> "DatabaseError",
             value |-> <<DatabaseErrorPrefix \o utf8[1] \o DatabaseErrorSuffix>>]
       ELSE [kind |-> "Ok", value |-> <<utf8[1]>>]
  ELSE [kind |-> "DeserializationError", value |-> <<Utf8ErrorText>>]

\* The and_then closure of query: the result for a complete body.
QueryResult(body) ==
  LET utf8 == from_utf8(body) IN
  IF utf8 # <<>>
  THEN IF Contains(utf8[1], ErrorNeedle)
       THEN [kind |-> "DatabaseError",
             value |-> <<DatabaseErrorPrefix \o utf8[1] \o DatabaseErrorSuffix>>]
       ELSE [kind |-> "Ok", value |-> <<utf8[1]>>]
  ELSE [kind |-> "DeserializationError", value |-> <<Utf8ErrorText>>]

\* The map closure of ping: the result for a response; each unwrap panics
\* on None or Err.
PingResult(res) ==
  IF res.build = <<>> \/ to_str(res.build[1]) = <<>>
     \/ res.version = <<>> \/ to_str(res.version[1]) = <<>>
  THEN [kind |-> "Panic", value |-> <<>>]
  ELSE [kind |-> "Tuple", value |-> <<to_str(res.build[1])[1], to_str(res.version[1])[1]>>]

NoQuery == [type |-> "None", ok |-> FALSE, text |-> <<>>, precision |-> <<>>]

\* The synchronous part of query(): what the call leaves behind before the
\* returned future is polled.
QueryCallResult(self, q) ==
  IF ~q.ok
  THEN [pc |-> "done", request |-> NoRequest,
        outcome |-> [kind |-> "InvalidQueryError", value |-> <<q.text>>]]
  ELSE IF q.type = ReadTypeId
  THEN IF UrlParses(ReadEndpoint(self))
       THEN [pc |-> "ready", request |-> ReadRequest(self, q.text), outcome |-> Pending]
       ELSE [pc |-> "panicked", request |-> NoRequest,
             outcome |-> [kind |-> "Panic", value |-> <<>>]]
  ELSE IF q.type = WriteTypeId
  THEN IF UrlParses(WriteEndpoint(self))
       THEN [pc |-> "ready",
             request |-> WriteRequest(self, q.text, q.precision), outcome |-> Pending]
       ELSE [pc |-> "panicked", request |-> NoRequest,
             outcome |-> [kind |-> "Panic", value |-> <<>>]]
  ELSE [pc |-> "panicked", request |-> NoRequest,
        outcome |-> [kind |-> "Panic", value |-> <<>>]]

(***************************************************************************)
(* State machine                                                           *)
(***************************************************************************)

Init ==
  /\ args \in [url : Urls, database : Databases, auth : Auths]
  /\ client = New(args.url, args.database, args.auth)
  /\ pc = [f \in Futures |-> "idle"]
  /\ op = [f \in Futures |-> "none"]
  /\ arg = [f \in Futures |-> NoQuery]
  /\ request = [f \in Futures |-> NoRequest]
  /\ sent = [f \in Futures |-> 0]
  /\ response = [f \in Futures |-> NoResponse]
  /\ outcome = [f \in Futures |-> Pending]

\* client.query(&q), up to the return of the boxed future.
Query(f, q) ==
  /\ pc[f] = "idle"
  /\ LET r == QueryCallResult(client, q) IN
       /\ pc' = [pc EXCEPT ![f] = r.pc]
       /\ request' = [request EXCEPT ![f] = r.request]
       /\ outcome' = [outcome EXCEPT ![f] = r.outcome]
  /\ op' = [op EXCEPT ![f] = "query"]
  /\ arg' = [arg EXCEPT ![f] = q]
  /\ UNCHANGED <<args, client, sent, response>>

\* client.ping(), up to the return of the future.
Ping(f) ==
  /\ pc[f] = "idle"
  /\ pc' = [pc EXCEPT ![f] = "ready"]
  /\ op' = [op EXCEPT ![f] = "ping"]
  /\ request' = [request EXCEPT ![f] = PingRequest(client)]
  /\ UNCHANGED <<args, client, arg, sent, response, outcome>>

\* The first poll of the future: .send() hands the request to the HTTP stack
\* and consumes the request builder.  sent counts these hand-overs; a ping
\* whose URL does not parse is refused by the stack and can only fail.
Send(f) ==
  /\ pc[f] = "ready"
  /\ pc' = [pc EXCEPT ![f] = "sent"]
  /\ sent' = [sent EXCEPT ![f] = @ + 1]
  /\ arg' = [arg EXCEPT ![f] = NoQuery]
  /\ request' = [request EXCEPT ![f] = NoRequest]
  /\ UNCHANGED <<args, client, op, response, outcome>>

\* The request of a query, or the reading of its body, fails: map_err.
QueryFails(f, err) ==
  /\ pc[f] = "sent"
  /\ op[f] = "query"
  /\ pc' = [pc EXCEPT ![f] = "done"]
  /\ outcome' = [outcome EXCEPT ![f] = [kind |-> "ProtocolError", value |-> <<err>>]]
  /\ UNCHANGED <<args, client, op, arg, request, sent, response>>

\* The round trip of a query delivers a complete body: and_then.
QueryResponds(f, status, body) ==
  /\ pc[f] = "sent"
  /\ op[f] = "query"
  /\ pc' = [pc EXCEPT ![f] = "done"]
  /\ response' = [response EXCEPT ![f] = [NoResponse EXCEPT !.status = status, !.body = body]]
  /\ outcome' = [outcome EXCEPT ![f] = QueryResult(body)]
  /\ UNCHANGED <<args, client, op, arg, request, sent>>

\* The request of a ping fails: map_err.
PingFails(f, err) ==
  /\ pc[f] = "sent"
  /\ op[f] = "ping"
  /\ pc' = [pc EXCEPT ![f] = "done"]
  /\ outcome' = [outcome EXCEPT ![f] = [kind |-> "ProtocolError", value |-> <<err>>]]
  /\ UNCHANGED <<args, client, op, arg, request, sent, response>>

\* The server answers a ping: map.
PingResponds(f, status, build, version) ==
  /\ pc[f] = "sent"
  /\ op[f] = "ping"
  /\ UrlParses(PingRequest(client).url)
  /\ LET res == [NoResponse EXCEPT !.status = status, !.build = build, !.version = version]
         r == PingResult(res)
     IN  /\ response' = [response EXCEPT ![f] = res]
         /\ outcome' = [outcome EXCEPT ![f] = r]
         /\ pc' = [pc EXCEPT ![f] = IF r.kind = "Panic" THEN "panicked" ELSE "done"]
  /\ UNCHANGED <<args, client, op, arg, request, sent>>

Drop_TakesAuth(f) ==
  /\ pc[f] \in {"done", "panicked"}
  /\ pc' = [pc EXCEPT ![f] = "idle"]
  /\ op' = [op EXCEPT ![f] = "none"]
  /\ arg' = [arg EXCEPT ![f] = NoQuery]
  /\ request' = [request EXCEPT ![f] = NoRequest]
  /\ sent' = [sent EXCEPT ![f] = 0]
  /\ response' = [response EXCEPT ![f] = NoResponse]
  /\ outcome' = [outcome EXCEPT ![f] = Pending]
  /\ client' = [client EXCEPT !.auth = <<>>]
  /\ UNCHANGED args

\* The caller is finished with the future of a call; the slot is free again.
Drop(f) ==
  /\ pc[f] \in {"done", "panicked"}
  /\ pc' = [pc EXCEPT ![f] = "idle"]
  /\ op' = [op EXCEPT ![f] = "none"]
  /\ arg' = [arg EXCEPT ![f] = NoQuery]
  /\ request' = [request EXCEPT ![f] = NoRequest]
  /\ sent' = [sent EXCEPT ![f] = 0]
  /\ response' = [response EXCEPT ![f] = NoResponse]
  /\ outcome' = [outcome EXCEPT ![f] = Pending]
  /\ UNCHANGED <<args, client>>

Next ==
  \E f \in Futures :
    \/ \E q \in Queries : Query(f, q)
    \/ Ping(f)
    \/ Send(f)
    \/ \E err \in Errs : QueryFails(f, err)
    \/ \E status \in Statuses, body \in Bodies : QueryResponds(f, status, body)
    \/ \E err \in Errs : PingFails(f, err)
    \/ \E status \in Statuses, build \in BuildHeaders, version \in VersionHeaders :
         PingResponds(f, status, build, version)
    \/ Drop(f)

Spec == Init /\ [][Next]_vars

(***************************************************************************)
(* Properties                                                              *)
(***************************************************************************)

\* s occurs in t as a contiguous substring.
Occurs(s, t) == \E i \in 1..(Len(t) - Len(s) + 1) : SubSeq(t, i, i + Len(s) - 1) = s

\* The request carries the URL parameter k with value v.
Carries(req, k, v) == \E i \in 1..Len(req.params) : req.params[i] = Param(k, v)

\* The request carries some URL parameter named k.
HasKey(req, k) == \E i \in 1..Len(req.params) : req.params[i].k = k

\* A query call whose request is built and not yet sent.
BuiltQuery(f) == op[f] = "query" /\ pc[f] = "ready"

\* A query call whose round trip delivered a complete body.
Delivered(f) == op[f] = "query" /\ pc[f] = "done" /\ response[f].status # 0

\* C1: when the round trip of a query delivers a complete body, whatever the
\* status code, the call ends with DatabaseError exactly when the body is
\* valid UTF-8 and contains "error" with its double quotes; the message is
\* then influxdb error: "<body>", and every other valid UTF-8 body is
\* returned unchanged as the success value.
C1_ErrorDetection ==
  \A f \in Futures :
    Delivered(f) =>
      LET body == response[f].body
          valid == Utf8From(body, 1)
          quoted == Occurs(ErrorNeedle, body)
      IN  /\ (outcome[f].kind = "DatabaseError") <=> (valid /\ quoted)
          /\ (valid /\ quoted) =>
               outcome[f].value = <<DatabaseErrorPrefix \o body \o DatabaseErrorSuffix>>
          /\ (valid /\ ~quoted) => outcome[f] = [kind |-> "Ok", value |-> <<body>>]

\* A status 200 body with "error" ends in DatabaseError while another call
\* got a body with the bare word error back as a success.
C1_Witness ==
  \E f, g \in Futures :
    /\ Delivered(f) /\ response[f].status = 200 /\ outcome[f].kind = "DatabaseError"
    /\ Delivered(g) /\ outcome[g].kind = "Ok"
    /\ Occurs(U(<<"e", "r", "r", "o", "r">>), response[g].body)

\* C2: the request is built by the runtime type of the query: a read query
\* carries db = the client's database and q = the built string and no body;
\* a write query is a POST carrying db and precision = the precision
\* modifier with the built string as body; a read query carries no
\* precision, a write query no q.
C2_RequestByType ==
  \A f \in Futures :
    BuiltQuery(f) =>
      /\ arg[f].type = ReadTypeId =>
           /\ Carries(request[f], "db", database_name(client))
           /\ Carries(request[f], "q", arg[f].text)
           /\ request[f].body = <<>>
           /\ ~HasKey(request[f], "precision")
      /\ arg[f].type = WriteTypeId =>
           /\ request[f].method = "POST"
           /\ Carries(request[f], "db", database_name(client))
           /\ Carries(request[f], "precision", arg[f].precision)
           /\ request[f].body = <<arg[f].text>>
           /\ ~HasKey(request[f], "q")

\* A read request and a write request are built at the same time.
C2_Witness ==
  \E f, g \in Futures :
    /\ BuiltQuery(f) /\ arg[f].type = ReadTypeId
    /\ BuiltQuery(g) /\ arg[g].type = WriteTypeId

\* The path of the query endpoint of the server.
QueryPath == U(<<"/", "q", "u", "e", "r", "y">>)

\* C3: a write query is sent to <database_url>/write and a read query to
\* <database_url>/query, never to /write.
C3_Endpoints ==
  \A f \in Futures :
    BuiltQuery(f) =>
      /\ arg[f].type = WriteTypeId => request[f].url = database_url(client) \o WritePath
      /\ arg[f].type = ReadTypeId =>
           /\ request[f].url = database_url(client) \o QueryPath
           /\ request[f].url # database_url(client) \o WritePath

\* C4: a query whose build fails ends with InvalidQueryError carrying the
\* build error's text and sends no request; a query whose build succeeds
\* sends exactly one request, and a failed round trip ends with
\* ProtocolError without another request.  Stated of read and write queries.
C4_OneRoundTrip ==
  \A f \in Futures :
    (op[f] = "query" /\ pc[f] \in {"done", "panicked"} /\ arg[f].type # OtherTypeId) =>
      /\ outcome[f].kind = "InvalidQueryError" =>
           /\ ~arg[f].ok
           /\ outcome[f].value = <<arg[f].text>>
           /\ sent[f] = 0
      /\ outcome[f].kind # "InvalidQueryError" => sent[f] = 1

\* The part of C4 the code keeps: no call sends a second request.
NoRetry == \A f \in Futures : sent[f] <= 1

\* C5: after any sequence of ping and query calls with any outcomes the
\* client still holds the url, database and authentication given to new,
\* and a request that is built uses exactly these.
C5_Immutable ==
  /\ database_name(client) = args.database
  /\ database_url(client) = args.url
  /\ auth(client) = args.auth
  /\ \A f \in Futures :
       /\ BuiltQuery(f) =>
            /\ Carries(request[f], "db", args.database)
            /\ SubSeq(request[f].url, 1, Len(args.url)) = args.url
            /\ HasKey(request[f], "u") <=> args.auth # <<>>
       /\ (op[f] = "ping" /\ pc[f] = "ready") => request[f].url = args.url \o PingPath

\* A call has ended with an error and its future was dropped, another call
\* ended in success, and a further request is built, on a client with
\* authentication.
C5_Witness ==
  \E f, g \in Futures :
    /\ f # g
    /\ pc[f] = "done" /\ outcome[f].kind \in {"Ok", "Tuple"}
    /\ BuiltQuery(g)
    /\ args.auth # <<>>

\* C6: a ping ends with the tuple of the values of the response headers
\* X-Influxdb-Build and X-Influxdb-Version for every response, with
\* ProtocolError when the request fails, and in no other way.
C6_PingOutcome ==
  \A f \in Futures :
    (op[f] = "ping" /\ pc[f] \in {"done", "panicked"}) =>
      /\ pc[f] = "done"
      /\ outcome[f].kind \in {"Tuple", "ProtocolError"}
      /\ response[f].status # 0 => outcome[f].kind = "Tuple"

\* C7: a read query is sent with GET exactly when its built string contains
\* SELECT or SHOW anywhere, in upper case, and with POST otherwise; a write
\* query is always sent with POST.
C7_Method ==
  \A f \in Futures :
    BuiltQuery(f) =>
      /\ arg[f].type = ReadTypeId =>
           /\ request[f].method \in {"GET", "POST"}
           /\ (request[f].method = "GET")
                <=> (Occurs(SELECT, arg[f].text) \/ Occurs(SHOW, arg[f].text))
      /\ arg[f].type = WriteTypeId => request[f].method = "POST"

\* A read query with SELECT behind a leading space is a GET, a read query
\* without either word is a POST.
C7_Witness ==
  \E f, g \in Futures :
    /\ BuiltQuery(f) /\ arg[f].type = ReadTypeId /\ request[f].method = "GET"
    /\ arg[f].text[1] = 32
    /\ BuiltQuery(g) /\ arg[g].type = ReadTypeId /\ request[g].method = "POST"

\* The names of the URL parameters of a request, in order.
Keys(req) == [i \in 1..Len(req.params) |-> req.params[i].k]

\* C8: with Some(authentication) a read or write request carries u =
\* username and p = password as its last two parameters, in that order;
\* with None it carries neither; a ping carries neither.
C8_Authentication ==
  \A f \in Futures :
    /\ BuiltQuery(f) =>
         LET n == Len(request[f].params) IN
         /\ auth(client) # <<>> =>
              /\ n = 4
              /\ request[f].params[3] = Param("u", auth(client)[1].username)
              /\ request[f].params[4] = Param("p", auth(client)[1].password)
              /\ Keys(request[f])[1] \notin {"u", "p"}
              /\ Keys(request[f])[2] \notin {"u", "p"}
         /\ auth(client) = <<>> => ~HasKey(request[f], "u") /\ ~HasKey(request[f], "p")
         /\ HasKey(request[f], "u") <=> HasKey(request[f], "p")
    /\ (op[f] = "ping" /\ pc[f] = "ready") =>
         ~HasKey(request[f], "u") /\ ~HasKey(request[f], "p")

\* A read and a write request are built on a client with authentication.
C8_Witness ==
  \E f, g \in Futures :
    /\ auth(client) # <<>>
    /\ BuiltQuery(f) /\ arg[f].type = ReadTypeId
    /\ BuiltQuery(g) /\ arg[g].type = WriteTypeId /\ HasKey(request[g], "p")

====
